---- MODULE Spec2Model ----
(***************************************************************************)
(* Instance registry, per-thread connection pool and transaction lifecycle *)
(* of SQLiteInstance (packages/isar_core/src/sqlite/sqlite_instance.rs).   *)
(*                                                                         *)
(* Option<T> is modelled as a sequence: <<>> is None, <<x>> is Some(x).    *)
(* ThreadLocal<T> is a function whose DOMAIN is the set of thread ids that *)
(* own a cell.  IntMap<T> is a function whose DOMAIN is the set of keys.   *)
(***************************************************************************)
EXTENDS Integers, Sequences, FiniteSets, TLC

VARIABLES
    INSTANCES,   \* the registry: hash of a name -> the shared instance
    txns,        \* the transactions in flight
    next_conn,   \* the identity the next opened connection gets
    next_inst,   \* the identity the next constructed instance gets
    dropped,     \* identities of the connections that were dropped (closed)
    opener,      \* for each live connection begin_txn opened: the thread that opened it,
                 \* or Gone when that thread has ended
    borrower,    \* for each connection a transaction owns: the thread whose begin_txn took it
    db,          \* for each database file: the documents committed to it, in order
    pending,     \* for each connection: the documents its open transaction has written
    inserts,     \* for each connection: the insert builder its transaction is lent to
    next_doc,    \* the number the next inserted document gets
    committed,   \* ids of the documents of transactions whose commit_txn returned Ok
    aborted,     \* ids of the documents of transactions that were passed to abort_txn
    call,        \* per thread: its open call, queued for the registry lock or returned
    lock,        \* the write lock of INSTANCES: "clean", or after a panic under its
                 \* guard "poisoned" (later calls panic on it) or "recovered"
    ret          \* the last completed call: its arguments and what it returned

vars ==
    <<INSTANCES, txns, next_conn, next_inst, dropped, opener, borrower,
      db, pending, inserts, next_doc, committed, aborted, call, lock, ret>>

\* ------------------------------------------------------------------ bounds
NumThreads == 2
MaxConns == 2
MaxDocs == 2

\* the ids ThreadLocal gives to threads; a thread keeps its id until it ends
\* (ThreadExit), and the id then goes to a thread started later
Threads == 1..NumThreads
Names == {"a"}
\* a name whose database file the engine cannot open
Unopenable == {"b"}
DirOpts == {<<>>, <<"d">>}

\* ----------------------------------------------------------------- schemas
PropertySchema(name) == [name |-> name, data_type |-> "String", target_id |-> <<>>]

ColTest ==
    [name |-> "Test",
     properties |-> <<PropertySchema(<<"prop1">>), PropertySchema(<<>>),
                      PropertySchema(<<"prop2">>)>>]

ColUser == [name |-> "User", properties |-> <<PropertySchema(<<"id">>)>>]

SchemaTestUser == [collections |-> <<ColTest, ColUser>>]
SchemaUser == [collections |-> <<ColUser>>]
SchemaDup == [collections |-> <<ColTest, ColTest>>]

Schemas == {SchemaTestUser, SchemaUser, SchemaDup}

\* xxh3_64 of a name, on the names the model uses
NameCode ==
    [a |-> 11, b |-> 23, d |-> 5, Test |-> 101, User |-> 202,
     prop1 |-> 3, prop2 |-> 7, id |-> 13]

get_id(collection_schema) == NameCode[collection_schema.name]

RECURSIVE hash_seq(_, _)
hash_seq(h, s) ==
    IF s = <<>> THEN h
    ELSE hash_seq((h * 31 + Head(s)) % 65536, Tail(s))

hash_collection(c) ==
    hash_seq(get_id(c),
             [i \in 1..Len(c.properties) |->
                 IF c.properties[i].name = <<>> THEN 1
                 ELSE NameCode[c.properties[i].name[1]]])

hash_schema(schema) ==
    hash_seq(17, [i \in 1..Len(schema.collections) |->
                     hash_collection(schema.collections[i])])

NoDuplicates(s) == \A i, j \in 1..Len(s) : s[i] = s[j] => i = j

verify_schema(schema) ==
    /\ NoDuplicates([i \in 1..Len(schema.collections) |-> schema.collections[i].name])
    /\ \A i \in 1..Len(schema.collections) :
          NoDuplicates(SelectSeq(
              [k \in 1..Len(schema.collections[i].properties) |->
                  schema.collections[i].properties[k].name],
              LAMBDA n : n # <<>>))

\* ------------------------------------------------------------- collections
SQLiteProperty(p) == [name |-> p.name[1], data_type |-> p.data_type, target_id |-> p.target_id]

SQLiteCollection(collection_schema) ==
    LET named == SelectSeq(collection_schema.properties, LAMBDA p : p.name # <<>>)
    IN [name |-> collection_schema.name,
        properties |-> [i \in 1..Len(named) |-> SQLiteProperty(named[i])]]

get_collections(schema) ==
    LET cs == schema.collections
        collection_ids == [i \in 1..Len(cs) |-> get_id(cs[i])]
        Last(id) == CHOOSE i \in 1..Len(cs) :
                       /\ collection_ids[i] = id
                       /\ \A j \in 1..Len(cs) : collection_ids[j] = id => j <= i
        collections == [id \in {collection_ids[i] : i \in 1..Len(cs)} |->
                           SQLiteCollection(cs[Last(id)])]
    IN <<collections, collection_ids>>

\* -------------------------------------------------------------- connection
SQLite3(id, path) == [id |-> id, path |-> path]

\* SQLite3::open(path): Ok(connection) or an I/O error
SQLite3_open(path, ok, cid) ==
    IF ok THEN <<SQLite3(cid, path)>> ELSE <<>>

Ids(conns) == {conns[i].id : i \in 1..Len(conns)}

\* ------------------------------------------------------------ construction
OpenResult(result, value, opened, migrated) ==
    [result |-> result, value |-> value, opened |-> opened, migrated |-> migrated]

\* open_instance validating the schema before it looks at the directory
open_instance_verifies_first(name, dir, schema, env) ==
    IF ~verify_schema(schema)
    THEN OpenResult("SchemaError", <<>>, 0, FALSE)
    ELSE IF dir = <<>>
    THEN OpenResult("IllegalArg", <<>>, 0, FALSE)
    ELSE LET path == <<dir[1], name, "sqlite">>
             sqlite == SQLite3_open(path, env # "io_error", 0)
         IN IF sqlite = <<>>
            THEN OpenResult("Panic", <<>>, 0, FALSE)
            ELSE IF env = "migration_error"
            THEN OpenResult("MigrationError", <<>>, Len(sqlite), TRUE)
            ELSE LET cols == get_collections(schema)
                 IN OpenResult("Ok",
                               <<[path |-> path,
                                  sqlite |-> <<>>,
                                  collections |-> cols[1],
                                  collection_ids |-> cols[2],
                                  schema_hash |-> hash_schema(schema)]>>,
                               Len(sqlite), TRUE)

open_instance(name, dir, schema, env) ==
    IF dir # <<>>
    THEN IF ~verify_schema(schema)
         THEN OpenResult("SchemaError", <<>>, 0, FALSE)
         ELSE LET schema_hash == hash_schema(schema)
                  path == <<dir[1], name, "sqlite">>
                  sqlite == SQLite3_open(path, env # "io_error", 0)
              IN IF sqlite = <<>>
                 THEN OpenResult("Panic", <<>>, 0, FALSE)
                 ELSE IF env = "migration_error"
                 THEN OpenResult("MigrationError", <<>>, Len(sqlite), TRUE)
                 ELSE LET cols == get_collections(schema)
                      IN OpenResult("Ok",
                                    <<[path |-> path,
                                       sqlite |-> <<>>,
                                       collections |-> cols[1],
                                       collection_ids |-> cols[2],
                                       schema_hash |-> schema_hash]>>,
                                    Len(sqlite), TRUE)
    ELSE OpenResult("IllegalArg", <<>>, 0, FALSE)

schema_hash(self) == self.schema_hash

\* ---------------------------------------------------------------- registry
instance_id(name) == NameCode[name]

Insert(map, key, value) ==
    [k \in DOMAIN map \cup {key} |-> IF k = key THEN value ELSE map[k]]

\* `made` is what the open closure returns; it is called only when no
\* instance is registered under the name.
get_or_open_instance(instances, name, schema, made, iid) ==
    LET key == instance_id(name)
    IN IF key \in DOMAIN instances
       THEN IF schema_hash(instances[key]) = hash_schema(schema)
            THEN [instances |-> instances, result |-> "Ok", arc |-> instances[key].arc,
                  constructed |-> FALSE, opened |-> 0, migrated |-> FALSE]
            ELSE [instances |-> instances, result |-> "SchemaMismatch", arc |-> 0,
                  constructed |-> FALSE, opened |-> 0, migrated |-> FALSE]
       ELSE IF made.result = "Ok"
            THEN [instances |-> Insert(instances, key, [arc |-> iid] @@ made.value[1]),
                  result |-> "Ok", arc |-> iid,
                  constructed |-> TRUE, opened |-> made.opened, migrated |-> made.migrated]
            ELSE [instances |-> instances, result |-> made.result, arc |-> 0,
                  constructed |-> TRUE, opened |-> made.opened, migrated |-> made.migrated]

\* open constructing and registering an instance on every call
open_always_constructs(instances, name, dir, schema, env, iid) ==
    get_or_open_instance(<<>>, name, schema,
                         open_instance(name, dir, schema, env), iid)

\* open constructing a registered instance anew, around its pool, when the
\* caller brings a schema of another fingerprint
open_reconstructs(instances, name, dir, schema, env, iid) ==
    LET key == instance_id(name)
        made == open_instance(name, dir, schema, env)
    IN IF /\ key \in DOMAIN instances
          /\ schema_hash(instances[key]) # hash_schema(schema)
          /\ made.result = "Ok"
       THEN [instances |-> [instances EXCEPT ![key] =
                               [arc |-> @.arc, sqlite |-> @.sqlite] @@ made.value[1]],
             result |-> "Ok", arc |-> instances[key].arc,
             constructed |-> TRUE, opened |-> made.opened, migrated |-> made.migrated]
       ELSE get_or_open_instance(instances, name, schema, made, iid)

open(instances, name, dir, schema, env, iid) ==
    get_or_open_instance(instances, name, schema,
                         open_instance(name, dir, schema, env), iid)

\* ------------------------------------------------------------ transactions
SQLiteTxn(sqlite, write, key) == [sqlite |-> sqlite, write |-> write, inst |-> key]

\* SQLiteTxn::new: starts the engine transaction; on failure the connection
\* it was given is dropped with it
SQLiteTxn_new(sqlite, write, key, ok) ==
    IF ok THEN <<SQLiteTxn(sqlite, write, key)>> ELSE <<>>

\* SQLiteTxn::commit / SQLiteTxn::abort: Ok(connection) or an error
SQLiteTxn_commit(txn, ok) == IF ok THEN <<txn.sqlite>> ELSE <<>>
SQLiteTxn_abort(txn, ok) == IF ok THEN <<txn.sqlite>> ELSE <<>>

\* ThreadLocal::get
ThreadLocal_get(tl, thread) == IF thread \in DOMAIN tl THEN <<tl[thread]>> ELSE <<>>

\* RefCell::replace on the cell of `thread`
Cell_replace(tl, thread, value) == [tl EXCEPT ![thread] = value]

\* engine: what the call made the storage engine do to the transaction's writes
TxnResult(sqlite, result, txn, opened, drops) ==
    [sqlite |-> sqlite, result |-> result, txn |-> txn, opened |-> opened, drops |-> drops,
     engine |-> "none"]

\* begin_txn reading the cell's connection where the code takes it out
begin_txn_reads_cell(self, key, thread, write, env, cid) ==
    LET cell == ThreadLocal_get(self.sqlite, thread)
        first == IF cell = <<>> THEN SQLite3_open(self.path, env # "io_error", cid) ELSE <<>>
    IN IF cell = <<>> /\ first = <<>>
       THEN TxnResult(self.sqlite, "Panic", <<>>, <<>>, {})
       ELSE LET taken == IF cell = <<>> THEN first ELSE cell[1]
                tl == Insert(self.sqlite, thread, taken)
                sqlite == IF taken # <<>> THEN taken
                          ELSE SQLite3_open(self.path, env # "io_error", cid)
                opened == IF cell = <<>> THEN first
                          ELSE IF taken = <<>> THEN sqlite ELSE <<>>
            IN IF sqlite = <<>>
               THEN TxnResult(tl, "IoError", <<>>, <<>>, {})
               ELSE LET txn == SQLiteTxn_new(sqlite[1], write, key, env # "txn_error")
                    IN IF txn = <<>>
                       THEN TxnResult(tl, "Error", <<>>, opened, {sqlite[1].id})
                       ELSE TxnResult(tl, "Ok", txn, opened, {})

\* begin_txn putting the connection back into the cell when the engine
\* transaction fails to start
begin_txn_restores(self, key, thread, write, env, cid) ==
    LET cell == ThreadLocal_get(self.sqlite, thread)
        first == IF cell = <<>> THEN SQLite3_open(self.path, env # "io_error", cid) ELSE <<>>
    IN IF cell = <<>> /\ first = <<>>
       THEN TxnResult(self.sqlite, "Panic", <<>>, <<>>, {})
       ELSE LET taken == IF cell = <<>> THEN first ELSE cell[1]
                tl == Insert(self.sqlite, thread, <<>>)
                sqlite == IF taken # <<>> THEN taken
                          ELSE SQLite3_open(self.path, env # "io_error", cid)
                opened == IF cell = <<>> THEN first
                          ELSE IF taken = <<>> THEN sqlite ELSE <<>>
            IN IF sqlite = <<>>
               THEN TxnResult(tl, "IoError", <<>>, <<>>, {})
               ELSE LET txn == SQLiteTxn_new(sqlite[1], write, key, env # "txn_error")
                    IN IF txn = <<>>
                       THEN TxnResult(Insert(self.sqlite, thread, sqlite), "Error", <<>>,
                                      opened, {})
                       ELSE TxnResult(tl, "Ok", txn, opened, {})

\* begin_txn opening a connection whatever the cell holds
begin_txn_always_opens(self, key, thread, write, env, cid) ==
    LET cell == ThreadLocal_get(self.sqlite, thread)
        taken == IF cell = <<>> THEN <<>> ELSE cell[1]
        tl == Insert(self.sqlite, thread, <<>>)
        sqlite == SQLite3_open(self.path, env # "io_error", cid)
    IN IF sqlite = <<>>
       THEN TxnResult(tl, "IoError", <<>>, <<>>, Ids(taken))
       ELSE LET txn == SQLiteTxn_new(sqlite[1], write, key, env # "txn_error")
            IN IF txn = <<>>
               THEN TxnResult(tl, "Error", <<>>, sqlite, Ids(taken) \cup {sqlite[1].id})
               ELSE TxnResult(tl, "Ok", txn, sqlite, Ids(taken))

\* begin_txn failing when the caller's cell exists and is empty
begin_txn_needs_idle(self, key, thread, write, env, cid) ==
    LET cell == ThreadLocal_get(self.sqlite, thread)
        first == IF cell = <<>> THEN SQLite3_open(self.path, env # "io_error", cid) ELSE <<>>
    IN IF cell = <<>> /\ first = <<>>
       THEN TxnResult(self.sqlite, "Panic", <<>>, <<>>, {})
       ELSE LET taken == IF cell = <<>> THEN first ELSE cell[1]
                tl == Insert(self.sqlite, thread, <<>>)
            IN IF taken = <<>>
               THEN TxnResult(tl, "Error", <<>>, <<>>, {})
               ELSE LET txn == SQLiteTxn_new(taken[1], write, key, env # "txn_error")
                    IN IF txn = <<>>
                       THEN TxnResult(tl, "Error", <<>>, first, {taken[1].id})
                       ELSE TxnResult(tl, "Ok", txn, first, {})

begin_txn(self, key, thread, write, env, cid) ==
    LET cell == ThreadLocal_get(self.sqlite, thread)
        first == IF cell = <<>> THEN SQLite3_open(self.path, env # "io_error", cid) ELSE <<>>
    IN IF cell = <<>> /\ first = <<>>
       THEN TxnResult(self.sqlite, "Panic", <<>>, <<>>, {})
       ELSE LET taken == IF cell = <<>> THEN first ELSE cell[1]
                tl == Insert(self.sqlite, thread, <<>>)
                sqlite == IF taken # <<>> THEN taken
                          ELSE SQLite3_open(self.path, env # "io_error", cid)
                opened == IF cell = <<>> THEN first
                          ELSE IF taken = <<>> THEN sqlite ELSE <<>>
            IN IF sqlite = <<>>
               THEN TxnResult(tl, "IoError", <<>>, <<>>, {})
               ELSE LET txn == SQLiteTxn_new(sqlite[1], write, key, env # "txn_error")
                    IN IF txn = <<>>
                       THEN TxnResult(tl, "Error", <<>>, opened, {sqlite[1].id})
                       ELSE TxnResult(tl, "Ok", txn, opened, {})

\* commit_txn dropping the connection of a committed transaction
commit_txn_drops(self, thread, txn, ok) ==
    LET sqlite == SQLiteTxn_commit(txn, ok)
    IN TxnResult(self.sqlite, IF sqlite = <<>> THEN "Error" ELSE "Ok", <<>>, <<>>,
                 {txn.sqlite.id})

\* commit_txn emptying the caller's cell before the engine commit
commit_txn_takes_first(self, thread, txn, ok) ==
    LET cell == ThreadLocal_get(self.sqlite, thread)
        tl == IF cell # <<>> THEN Cell_replace(self.sqlite, thread, <<>>) ELSE self.sqlite
        old == IF cell # <<>> THEN Ids(cell[1]) ELSE {}
        sqlite == SQLiteTxn_commit(txn, ok)
    IN IF sqlite = <<>>
       THEN TxnResult(tl, "Error", <<>>, <<>>, old \cup {txn.sqlite.id})
       ELSE IF cell # <<>>
       THEN TxnResult(Cell_replace(tl, thread, sqlite), "Ok", <<>>, <<>>, old)
       ELSE TxnResult(tl, "Ok", <<>>, <<>>, {txn.sqlite.id})

\* commit_txn ending the transaction with txn.abort()
commit_txn_aborts(self, thread, txn, ok) ==
    LET sqlite == SQLiteTxn_abort(txn, ok)
        cell == ThreadLocal_get(self.sqlite, thread)
    IN IF sqlite = <<>>
       THEN TxnResult(self.sqlite, "Error", <<>>, <<>>, {txn.sqlite.id})
       ELSE [(IF cell # <<>>
              THEN TxnResult(Cell_replace(self.sqlite, thread, sqlite), "Ok", <<>>, <<>>,
                             Ids(cell[1]))
              ELSE TxnResult(self.sqlite, "Ok", <<>>, <<>>, {txn.sqlite.id}))
                EXCEPT !.engine = "rollback"]

\* commit_txn keeping the connection its caller's cell already holds
commit_txn_keeps_idle(self, thread, txn, ok) ==
    LET sqlite == SQLiteTxn_commit(txn, ok)
        cell == ThreadLocal_get(self.sqlite, thread)
    IN IF sqlite = <<>>
       THEN TxnResult(self.sqlite, "Error", <<>>, <<>>, {txn.sqlite.id})
       ELSE [(IF cell # <<>> /\ cell[1] = <<>>
              THEN TxnResult(Cell_replace(self.sqlite, thread, sqlite), "Ok", <<>>, <<>>, {})
              ELSE TxnResult(self.sqlite, "Ok", <<>>, <<>>, {txn.sqlite.id}))
                EXCEPT !.engine = "commit"]

commit_txn(self, thread, txn, ok) ==
    LET sqlite == SQLiteTxn_commit(txn, ok)
        cell == ThreadLocal_get(self.sqlite, thread)
    IN IF sqlite = <<>>
       THEN TxnResult(self.sqlite, "Error", <<>>, <<>>, {txn.sqlite.id})
       ELSE [(IF cell # <<>>
              THEN TxnResult(Cell_replace(self.sqlite, thread, sqlite), "Ok", <<>>, <<>>,
                             Ids(cell[1]))
              ELSE TxnResult(self.sqlite, "Ok", <<>>, <<>>, {txn.sqlite.id}))
                EXCEPT !.engine = "commit"]

\* abort_txn handing a failed rollback to its caller
abort_txn_reports(self, thread, txn, ok) ==
    LET sqlite == SQLiteTxn_abort(txn, ok)
        cell == ThreadLocal_get(self.sqlite, thread)
    IN IF sqlite = <<>>
       THEN TxnResult(self.sqlite, "Error", <<>>, <<>>, {txn.sqlite.id})
       ELSE IF cell # <<>>
       THEN TxnResult(Cell_replace(self.sqlite, thread, sqlite), "Unit", <<>>, <<>>,
                      Ids(cell[1]))
       ELSE TxnResult(self.sqlite, "Unit", <<>>, <<>>, {txn.sqlite.id})

\* abort_txn ending the transaction with txn.commit()
abort_txn_commits(self, thread, txn, ok) ==
    LET sqlite == SQLiteTxn_commit(txn, ok)
        cell == ThreadLocal_get(self.sqlite, thread)
    IN IF sqlite # <<>>
       THEN [(IF cell # <<>>
              THEN TxnResult(Cell_replace(self.sqlite, thread, sqlite), "Unit", <<>>, <<>>,
                             Ids(cell[1]))
              ELSE TxnResult(self.sqlite, "Unit", <<>>, <<>>, {txn.sqlite.id}))
                EXCEPT !.engine = "commit"]
       ELSE TxnResult(self.sqlite, "Unit", <<>>, <<>>, {txn.sqlite.id})

abort_txn(self, thread, txn, ok) ==
    LET sqlite == SQLiteTxn_abort(txn, ok)
        cell == ThreadLocal_get(self.sqlite, thread)
    IN IF sqlite # <<>>
       THEN [(IF cell # <<>>
              THEN TxnResult(Cell_replace(self.sqlite, thread, sqlite), "Unit", <<>>, <<>>,
                             Ids(cell[1]))
              ELSE TxnResult(self.sqlite, "Unit", <<>>, <<>>, {txn.sqlite.id}))
                EXCEPT !.engine = "rollback"]
       ELSE TxnResult(self.sqlite, "Unit", <<>>, <<>>, {txn.sqlite.id})

\* ---------------------------------------------------------------- dispatch
SQLiteQueryBuilder(collection, collections) ==
    [collection |-> collection, all_collections |-> DOMAIN collections]

SQLiteInsert(txn, collection, collections, count) ==
    [txn |-> txn, collection |-> collection, all_collections |-> DOMAIN collections,
     count |-> count]

CallResult(result, builder) == [result |-> result, builder |-> builder]

\* query building on some collection when the id is unknown
query_unchecked(self, col_id) ==
    LET known == IF col_id \in DOMAIN self.collections THEN col_id
                 ELSE CHOOSE id \in DOMAIN self.collections : TRUE
    IN CallResult("Ok", <<SQLiteQueryBuilder(self.collections[known], self.collections)>>)

query(self, col_id) ==
    IF col_id \notin DOMAIN self.collections
    THEN CallResult("IllegalArg", <<>>)
    ELSE CallResult("Ok", <<SQLiteQueryBuilder(self.collections[col_id],
                                               self.collections)>>)

insert(self, txn, col_id, count) ==
    IF col_id \notin DOMAIN self.collections
    THEN CallResult("IllegalArg", <<>>)
    ELSE CallResult("Ok", <<SQLiteInsert(txn, self.collections[col_id],
                                         self.collections, count)>>)

\* index counts from 0
\* collection_id counting the collections from one
collection_id_one_based(self, index) ==
    IF 1 <= index /\ index <= Len(self.collection_ids)
    THEN <<self.collection_ids[index]>>
    ELSE <<>>

collection_id(self, index) ==
    IF index < Len(self.collection_ids) THEN <<self.collection_ids[index + 1]>> ELSE <<>>

\* ------------------------------------------------------------------ system
\* every registry key and every transaction value the bounds allow
AllKeys == {instance_id(name) : name \in Names}
AllPaths == {<<dir[1], name, "sqlite">> : dir \in DirOpts \ {<<>>}, name \in Names}
AllTxns ==
    {SQLiteTxn(SQLite3(id, path), write, key) :
        id \in 1..MaxConns, path \in AllPaths, write \in BOOLEAN, key \in AllKeys}

NoRet ==
    [op |-> "none", result |-> "None", name |-> "", dir |-> <<>>,
     schema |-> [collections |-> <<>>], arc |-> 0, constructed |-> FALSE,
     opened |-> 0, migrated |-> FALSE, drops |-> {}]

\* a thread's call of SQLiteInstance::open: `fresh` tells whether the name was
\* unregistered when the thread entered, `with` which threads had a call for
\* the same name in flight at some moment of this call
NoCall == [NoRet EXCEPT !.op = "idle"] @@ [fresh |-> FALSE, with |-> {}]

Init ==
    /\ INSTANCES = <<>>
    /\ txns = {}
    /\ next_conn = 1
    /\ next_inst = 1
    /\ dropped = {}
    /\ opener = <<>>
    /\ borrower = <<>>
    /\ db = [path \in AllPaths |-> <<>>]
    /\ pending = [id \in 1..MaxConns |-> <<>>]
    /\ inserts = [id \in 1..MaxConns |-> <<>>]
    /\ next_doc = 1
    /\ committed = {}
    /\ aborted = {}
    /\ call = [t \in Threads |-> NoCall]
    /\ lock = "clean"
    /\ ret = NoRet

\* what the storage engine does during one call
OpenEnv == {"ok", "io_error", "migration_error"}
BeginEnv == {"ok", "io_error", "txn_error"}

\* ... with a name of Unopenable
EnvOf(name) == IF name \in Unopenable THEN {"io_error"} ELSE OpenEnv

\* the builds to tell apart: both while no panic has shown which one runs
Builds(env) == IF lock = "clean" /\ env = "io_error" THEN BOOLEAN ELSE {FALSE}

\* the registry after SQLiteInstance::open returned r
Opened(r) ==
    /\ INSTANCES' = r.instances
    /\ next_inst' = IF r.constructed /\ r.result = "Ok" THEN next_inst + 1 ELSE next_inst

Returned(rec, r) ==
    [rec EXCEPT !.result = r.result, !.arc = r.arc, !.constructed = r.constructed,
                !.opened = r.opened, !.migrated = r.migrated]

\* A std::sync::RwLock is poisoned when a thread panics while it holds the
\* write guard, and every later write() reports the poisoning. Whether
\* get_or_open_instance unwraps that report (and panics) or goes on with the
\* guard is not in the source: `unwraps` is what the build does, fixed from
\* the first panic on.
Poisons(result, unwraps) ==
    IF result = "Panic" /\ lock = "clean"
    THEN IF unwraps THEN "poisoned" ELSE "recovered"
    ELSE lock

\* what a call on the poisoned lock comes to: a panic before the lookup
OnPoisoned ==
    [instances |-> INSTANCES, result |-> "Panic", arc |-> 0,
     constructed |-> FALSE, opened |-> 0, migrated |-> FALSE]

\* SQLiteInstance::open as one step of the calling thread: the registry's
\* write lock is held from the lookup to the insertion, and nothing in it
\* depends on the calling thread. A call that panics has the result Panic.
Open(name, dir, schema, env, unwraps) ==
    /\ LET r == IF lock = "poisoned" THEN OnPoisoned
                ELSE open(INSTANCES, name, dir, schema, env, next_inst)
       IN /\ Opened(r)
          /\ lock' = Poisons(r.result, unwraps)
          /\ ret' = Returned([NoRet EXCEPT !.op = "open", !.name = name,
                                           !.dir = dir, !.schema = schema], r)
    /\ UNCHANGED <<txns, next_conn, dropped, opener, db, pending, inserts, next_doc, call>>

\* The same call step by step, for calls of several threads that overlap.
\* The threads inside SQLiteInstance::open, and the one that holds the write
\* lock of INSTANCES
InFlight == {t \in Threads : call[t].op \in {"wait", "locked"}}
Holder == {t \in Threads : call[t].op = "locked"}

\* the thread enters SQLiteInstance::open and queues for the write lock;
\* a thread that has panicked makes no further call
OpenCall(t, name, dir, schema) ==
    /\ call[t].op \in {"idle", "done"}
    /\ LET others == {u \in InFlight \ {t} : call[u].name = name}
       IN call' = [u \in Threads |->
                     IF u = t
                     THEN [NoCall EXCEPT !.op = "wait", !.name = name,
                                         !.dir = dir, !.schema = schema,
                                         !.fresh = instance_id(name) \notin DOMAIN INSTANCES,
                                         !.with = others]
                     ELSE IF u \in others
                     THEN [call[u] EXCEPT !.with = @ \cup {t}]
                     ELSE call[u]]
    /\ UNCHANGED <<INSTANCES, txns, next_conn, next_inst, dropped, opener, db, pending, inserts,
                   next_doc, lock, ret>>

\* get_or_open_instance takes the write lock when no thread holds it, or
\* panics on the poisoned lock
OpenLock(t) ==
    /\ call[t].op = "wait"
    /\ Holder = {}
    /\ call' = [call EXCEPT ![t] = IF lock = "poisoned"
                                   THEN [@ EXCEPT !.op = "panicked", !.result = "Panic"]
                                   ELSE [@ EXCEPT !.op = "locked"]]
    /\ UNCHANGED <<INSTANCES, txns, next_conn, next_inst, dropped, opener, db, pending, inserts,
                   next_doc, lock, ret>>

\* the holder of the lock looks the name up, runs the closure with
\* open_instance on a miss, registers the instance it made, and returns: the
\* guard is dropped, also when the closure panics and the thread unwinds
OpenRun(t, unwraps) ==
    /\ call[t].op = "locked"
    /\ \E env \in EnvOf(call[t].name) :
         LET c == call[t]
             r == open(INSTANCES, c.name, c.dir, c.schema, env, next_inst)
             end == IF r.result = "Panic" THEN "panicked" ELSE "done"
         IN /\ Opened(r)
            /\ lock' = Poisons(r.result, unwraps)
            /\ call' = [call EXCEPT ![t] = Returned([c EXCEPT !.op = end], r)]
    /\ UNCHANGED <<txns, next_conn, dropped, opener, db, pending, inserts, next_doc, ret>>

\* the mark of a thread that has ended, where a thread's id was recorded
Gone == 0

\* The thread that holds id t ends, and a thread started later is given the
\* id: ThreadLocal numbers the threads and hands the id of an ended thread to
\* the next new one, and the instance keeps the cell of that id with whatever
\* it holds. Nothing of the pool changes; what the ended thread opened is no
\* longer the work of the thread that now has the id. The step changes the
\* record `opener` alone, so it is taken where a property counts what a
\* thread has opened (SpecSerial); a property that does not read `opener`
\* holds with it exactly when it holds without it.
ThreadExit(t) ==
    /\ call[t].op \in {"idle", "done"}
    /\ opener' = [id \in DOMAIN opener |-> IF opener[id] = t THEN Gone ELSE opener[id]]
    /\ UNCHANGED <<INSTANCES, txns, next_conn, next_inst, dropped, db, pending, inserts,
                   next_doc, call, lock, ret>>

SetPool(key, tl) == [INSTANCES EXCEPT ![key].sqlite = tl]

TxnRet(op, r) ==
    [NoRet EXCEPT !.op = op, !.result = r.result, !.drops = r.drops]

\* the storage engine: a commit appends the transaction's writes to the file,
\* a rollback and the closing of a dropped connection discard them
Stored(files, written, txn) ==
    [files EXCEPT ![txn.sqlite.path] = @ \o written[txn.sqlite.id]]

\* begin_txn on thread t, on the instance registered under key
Begin(t, key, write, env) ==
    /\ key \in DOMAIN INSTANCES
    /\ LET r == begin_txn(INSTANCES[key], key, t, write, env, next_conn)
       IN /\ Len(r.opened) > 0 => next_conn <= MaxConns
          /\ INSTANCES' = SetPool(key, r.sqlite)
          /\ txns' = txns \cup {r.txn[i] : i \in 1..Len(r.txn)}
          /\ next_conn' = next_conn + Len(r.opened)
          /\ dropped' = dropped \cup r.drops
          /\ opener' = [id \in (DOMAIN opener \cup Ids(r.opened)) \ r.drops |->
                            IF id \in DOMAIN opener THEN opener[id] ELSE t]
          /\ pending' = [id \in DOMAIN pending |->
                             IF id \in r.drops THEN <<>> ELSE pending[id]]
          /\ ret' = TxnRet("begin", r)
    /\ UNCHANGED <<next_inst, db, inserts, next_doc, call, lock>>

\* commit_txn on thread t; ok: whether the engine's commit succeeds
Commit(t, txn, ok) ==
    /\ txn \in txns
    /\ LET r == commit_txn(INSTANCES[txn.inst], t, txn, ok)
       IN /\ INSTANCES' = SetPool(txn.inst, r.sqlite)
          /\ txns' = txns \ {txn}
          /\ dropped' = dropped \cup r.drops
          /\ opener' = [id \in DOMAIN opener \ r.drops |-> opener[id]]
          /\ db' = IF r.engine = "commit" THEN Stored(db, pending, txn) ELSE db
          /\ pending' = [id \in DOMAIN pending |->
                             IF id \in r.drops \/ (id = txn.sqlite.id /\ r.engine # "none")
                             THEN <<>> ELSE pending[id]]
          /\ ret' = TxnRet("commit", r)
    /\ inserts' = [inserts EXCEPT ![txn.sqlite.id] = <<>>]
    /\ UNCHANGED <<next_conn, next_inst, next_doc, call, lock>>

\* abort_txn on thread t; ok: whether the engine's rollback succeeds
Abort(t, txn, ok) ==
    /\ txn \in txns
    /\ LET r == abort_txn(INSTANCES[txn.inst], t, txn, ok)
       IN /\ INSTANCES' = SetPool(txn.inst, r.sqlite)
          /\ txns' = txns \ {txn}
          /\ dropped' = dropped \cup r.drops
          /\ opener' = [id \in DOMAIN opener \ r.drops |-> opener[id]]
          /\ db' = IF r.engine = "commit" THEN Stored(db, pending, txn) ELSE db
          /\ pending' = [id \in DOMAIN pending |->
                             IF id \in r.drops \/ (id = txn.sqlite.id /\ r.engine # "none")
                             THEN <<>> ELSE pending[id]]
          /\ ret' = TxnRet("abort", r)
    /\ inserts' = [inserts EXCEPT ![txn.sqlite.id] = <<>>]
    /\ UNCHANGED <<next_conn, next_inst, next_doc, call, lock>>

\* the number of documents test_exec announces to insert
InsertCount == 2

\* the collection ids and positions a caller may pass
CollectionIdOpts == {get_id(ColTest), get_id(ColUser), 0}
MaxIndex == 2

CallRet(op, result, value, docs) ==
    [op |-> op, result |-> result, value |-> value, docs |-> docs] @@ NoRet

\* the n-th document a caller writes, as test_exec writes them
Doc(n, collection) ==
    [id |-> 996 + n, collection |-> collection, prop1 |-> <<"val", n>>, prop2 |-> <<"x", n>>]

DocIds(docs) == {docs[i].id : i \in 1..Len(docs)}

\* what a cursor of the built query reads in the transaction: the committed
\* documents of the collection and then the transaction's own writes
Cursor(builder, txn) ==
    SelectSeq(db[txn.sqlite.path] \o pending[txn.sqlite.id],
              LAMBDA d : d.collection = builder.collection.name)

\* query on the instance registered under key
Query(key, col_id) ==
    /\ key \in DOMAIN INSTANCES
    /\ LET r == query(INSTANCES[key], col_id)
       IN ret' = CallRet("query", r.result, r.builder, <<>>)
    /\ UNCHANGED <<INSTANCES, txns, next_conn, next_inst, dropped, opener, db, pending, inserts,
                   next_doc, call, lock>>

\* query, and the built query run in the transaction txn: the cursor borrows
\* the transaction, which ends the loan to an insert builder; when query
\* fails no cursor is made and the builder keeps the transaction
Read(txn, col_id) ==
    /\ txn \in txns
    /\ LET r == query(INSTANCES[txn.inst], col_id)
       IN /\ ret' = CallRet("read", r.result, r.builder,
                            IF r.builder = <<>> THEN <<>> ELSE Cursor(r.builder[1], txn))
          /\ inserts' = IF r.builder = <<>> THEN inserts
                         ELSE [inserts EXCEPT ![txn.sqlite.id] = <<>>]
    /\ UNCHANGED <<INSTANCES, txns, next_conn, next_inst, dropped, opener, db, pending,
                   next_doc, call, lock>>

\* insert: the call borrows the transaction, ending the loan to an earlier
\* builder, and hands the transaction to the builder it returns
InsertCall(txn, col_id, count) ==
    /\ txn \in txns
    /\ LET r == insert(INSTANCES[txn.inst], txn, col_id, count)
       IN /\ inserts' = [inserts EXCEPT ![txn.sqlite.id] = r.builder]
          /\ ret' = CallRet("insert", r.result, r.builder, <<>>)
    /\ UNCHANGED <<INSTANCES, txns, next_conn, next_inst, dropped, opener, db, pending,
                   next_doc, call, lock>>

\* the caller writes the next document through the insert builder that holds
\* the transaction, as test_exec does; the builder takes `count` documents
WriteDoc(txn) ==
    /\ txn \in txns
    /\ inserts[txn.sqlite.id] # <<>>
    /\ inserts[txn.sqlite.id][1].count > 0
    /\ next_doc <= MaxDocs
    /\ LET builder == inserts[txn.sqlite.id][1]
       IN /\ pending' = [pending EXCEPT ![txn.sqlite.id] =
                             Append(@, Doc(next_doc, builder.collection.name))]
          /\ inserts' = [inserts EXCEPT ![txn.sqlite.id] =
                             <<[builder EXCEPT !.count = @ - 1]>>]
    /\ next_doc' = next_doc + 1
    /\ ret' = CallRet("write", "Ok", <<>>, <<>>)
    /\ UNCHANGED <<INSTANCES, txns, next_conn, next_inst, dropped, opener, db, call, lock>>

\* collection_id on the instance registered under key
CollectionId(key, index) ==
    /\ key \in DOMAIN INSTANCES
    /\ ret' = CallRet("collection_id", "Ok", collection_id(INSTANCES[key], index), <<>>)
    /\ UNCHANGED <<INSTANCES, txns, next_conn, next_inst, dropped, opener, db, pending, inserts,
                   next_doc, call, lock>>

\* schema_hash on the instance registered under key
SchemaHash(key) ==
    /\ key \in DOMAIN INSTANCES
    /\ ret' = CallRet("schema_hash", "Ok", <<schema_hash(INSTANCES[key])>>, <<>>)
    /\ UNCHANGED <<INSTANCES, txns, next_conn, next_inst, dropped, opener, db, pending, inserts,
                   next_doc, call, lock>>

\* the history the pool itself does not keep; the calls above leave it alone
history == <<borrower, committed, aborted>>

\* The calls of the pool, with every outcome of the engine but the failure to
\* open the database file during construction: that one panics under the
\* registry's lock and is followed in SpecRegistry and SpecOpen; the pool is
\* not reached through the lock.
Next ==
    \/ \E name \in Names, dir \in DirOpts, schema \in Schemas, env \in OpenEnv \ {"io_error"} :
          Open(name, dir, schema, env, FALSE) /\ UNCHANGED history
    \/ \E t \in Threads, key \in AllKeys, write \in BOOLEAN, env \in BeginEnv :
          Begin(t, key, write, env) /\ UNCHANGED history
    \/ \E t \in Threads, txn \in AllTxns, ok \in BOOLEAN :
          Commit(t, txn, ok) /\ UNCHANGED history
    \/ \E t \in Threads, txn \in AllTxns, ok \in BOOLEAN :
          Abort(t, txn, ok) /\ UNCHANGED history

Spec == Init /\ [][Next]_vars

\* threads that each call SQLiteInstance::open once, with any arguments, at
\* any moment: the calls overlap in every way the lock allows
NextOpen ==
    \/ \E t \in Threads, name \in Names, dir \in DirOpts, schema \in Schemas :
          call[t].op = "idle" /\ OpenCall(t, name, dir, schema) /\ UNCHANGED history
    \/ \E t \in Threads, name \in Unopenable :
          call[t].op = "idle" /\ OpenCall(t, name, <<"d">>, SchemaTestUser) /\ UNCHANGED history
    \/ \E t \in Threads : OpenLock(t) /\ UNCHANGED history
    \/ \E t \in Threads, unwraps \in Builds("io_error") :
          OpenRun(t, unwraps) /\ UNCHANGED history

SpecOpen == Init /\ [][NextOpen]_vars

\* the registry with every argument of open and every outcome of the engine
\* during construction, beside a pool with one transaction in flight at a
\* time on an engine that starts, commits and rolls back every transaction
NextRegistry ==
    \/ \E name \in Names, dir \in DirOpts, schema \in Schemas, env \in OpenEnv :
          \E unwraps \in Builds(env) :
             Open(name, dir, schema, env, unwraps) /\ UNCHANGED history
    \/ \E name \in Unopenable, unwraps \in Builds("io_error") :
          Open(name, <<"d">>, SchemaTestUser, "io_error", unwraps) /\ UNCHANGED history
    \/ \E t \in Threads, key \in AllKeys, write \in BOOLEAN :
          txns = {} /\ Begin(t, key, write, "ok") /\ UNCHANGED history
    \/ \E t \in Threads, txn \in AllTxns :
          Commit(t, txn, TRUE) /\ UNCHANGED history
    \/ \E t \in Threads, txn \in AllTxns :
          Abort(t, txn, TRUE) /\ UNCHANGED history

SpecRegistry == Init /\ [][NextRegistry]_vars

\* the pool with the borrowing thread of every transaction recorded; the
\* instance is opened with the one schema and directory of test_exec
Borrowers(t) ==
    borrower' = [id \in {x.sqlite.id : x \in txns'} |->
                    IF id \in DOMAIN borrower THEN borrower[id] ELSE t]

fates == <<committed, aborted>>

NextBorrow ==
    \/ \E name \in Names : Open(name, <<"d">>, SchemaTestUser, "ok", FALSE) /\ UNCHANGED history
    \/ \E t \in Threads, key \in AllKeys, write \in BOOLEAN, env \in BeginEnv :
          Begin(t, key, write, env) /\ Borrowers(t) /\ UNCHANGED fates
    \/ \E t \in Threads, txn \in AllTxns, ok \in BOOLEAN :
          Commit(t, txn, ok) /\ Borrowers(t) /\ UNCHANGED fates
    \/ \E t \in Threads, txn \in AllTxns, ok \in BOOLEAN :
          Abort(t, txn, ok) /\ Borrowers(t) /\ UNCHANGED fates

SpecBorrow == Init /\ [][NextBorrow]_vars

\* every call of the interface, one transaction in flight at a time, on an
\* engine that opens connections and starts transactions without failure;
\* insert is called on read and on write transactions and hands out its
\* builder, through which nothing is written
NextCalls ==
    \/ \E name \in Names, schema \in Schemas :
          Open(name, <<"d">>, schema, "ok", FALSE) /\ UNCHANGED history
    \/ \E t \in Threads, key \in AllKeys, write \in BOOLEAN :
          txns = {} /\ Begin(t, key, write, "ok") /\ UNCHANGED history
    \/ \E t \in Threads, txn \in AllTxns, ok \in BOOLEAN :
          Commit(t, txn, ok) /\ UNCHANGED history
    \/ \E t \in Threads, txn \in AllTxns, ok \in BOOLEAN :
          Abort(t, txn, ok) /\ UNCHANGED history
    \/ \E key \in AllKeys, col_id \in CollectionIdOpts :
          Query(key, col_id) /\ UNCHANGED history
    \/ \E txn \in AllTxns, col_id \in CollectionIdOpts, count \in {0, MaxDocs} :
          InsertCall(txn, col_id, count) /\ UNCHANGED history
    \/ \E key \in AllKeys, index \in 0..MaxIndex :
          CollectionId(key, index) /\ UNCHANGED history
    \/ \E key \in AllKeys : SchemaHash(key) /\ UNCHANGED history

SpecCalls == Init /\ [][NextCalls]_vars

\* threads that run their transactions one after another, each committed or
\* aborted by the thread that began it
Idle(t) == \A id \in DOMAIN borrower : borrower[id] # t
Began(t, txn) == txn \in txns /\ borrower[txn.sqlite.id] = t

\* ... on an engine that starts, commits and rolls back every transaction
NextSerial ==
    \/ \E name \in Names, dir \in DirOpts, schema \in Schemas, env \in OpenEnv \ {"io_error"} :
          Open(name, dir, schema, env, FALSE) /\ UNCHANGED history
    \/ \E t \in Threads, key \in AllKeys, write \in BOOLEAN :
          Idle(t) /\ Begin(t, key, write, "ok") /\ Borrowers(t) /\ UNCHANGED fates
    \/ \E t \in Threads, txn \in AllTxns :
          Began(t, txn) /\ Commit(t, txn, TRUE) /\ Borrowers(t) /\ UNCHANGED fates
    \/ \E t \in Threads, txn \in AllTxns :
          Began(t, txn) /\ Abort(t, txn, TRUE) /\ Borrowers(t) /\ UNCHANGED fates
    \/ \E t \in Threads : Idle(t) /\ ThreadExit(t) /\ UNCHANGED history

SpecSerial == Init /\ [][NextSerial]_vars

\* ... writing and reading documents of the collection of test_exec; callers
\* insert and write documents through write transactions only, with builders
\* for two documents each, as test_exec does (SpecCalls has insert on read
\* transactions and with other counts), and also query a collection the
\* instance does not have; the engine lets one
\* transaction write at a time and may reject a commit or a rollback; the fate of every
\* document is recorded as the caller sees it: from what commit_txn returned
\* and from the call of abort_txn
Committed(txn) ==
    /\ committed' = IF ret'.result = "Ok"
                    THEN committed \cup DocIds(pending[txn.sqlite.id])
                    ELSE committed
    /\ aborted' = aborted

Aborted(txn) ==
    /\ aborted' = aborted \cup DocIds(pending[txn.sqlite.id])
    /\ committed' = committed

NextDocs ==
    \/ \E name \in Names : Open(name, <<"d">>, SchemaTestUser, "ok", FALSE) /\ UNCHANGED history
    \/ \E t \in Threads, key \in AllKeys, write \in BOOLEAN :
          /\ Idle(t)
          /\ write => \A x \in txns : ~x.write
          /\ Begin(t, key, write, "ok") /\ Borrowers(t) /\ UNCHANGED fates
    \/ \E txn \in AllTxns :
          txn.write /\ InsertCall(txn, get_id(ColTest), InsertCount) /\ UNCHANGED history
    \/ \E txn \in AllTxns : txn.write /\ WriteDoc(txn) /\ UNCHANGED history
    \/ \E txn \in AllTxns, col_id \in {get_id(ColTest), 0} :
          Read(txn, col_id) /\ UNCHANGED history
    \/ \E t \in Threads, txn \in AllTxns, ok \in BOOLEAN :
          Began(t, txn) /\ Commit(t, txn, ok) /\ Borrowers(t) /\ Committed(txn)
    \/ \E t \in Threads, txn \in AllTxns, ok \in BOOLEAN :
          Began(t, txn) /\ Abort(t, txn, ok) /\ Borrowers(t) /\ Aborted(txn)

SpecDocs == Init /\ [][NextDocs]_vars

\* ------------------------------------------------------------------ claims
Keys == DOMAIN INSTANCES
Pool(key) == INSTANCES[key].sqlite

\* the slots in which the connection `id` rests idle
IdleIn(id) ==
    {kt \in UNION {{<<key, t>> : t \in DOMAIN Pool(key)} : key \in Keys} :
        /\ Pool(kt[1])[kt[2]] # <<>>
        /\ Pool(kt[1])[kt[2]][1].id = id}

\* the transactions in flight that own the connection `id`
OwnedBy(id) == {txn \in txns : txn.sqlite.id = id}

Holders(id) ==
    Cardinality(IdleIn(id)) + Cardinality(OwnedBy(id)) + (IF id \in dropped THEN 1 ELSE 0)

\* C1: every connection ever opened is in exactly one place: idle in one pool
\* slot, or owned by one transaction in flight, or dropped.
C1_ExclusiveOwnership == \A id \in 1..(next_conn - 1) : Holders(id) = 1

\* after a commit or an abort, one connection rests idle in a slot and another
\* is owned by a transaction in flight
C1_Witness ==
    /\ ret.op \in {"commit", "abort"}
    /\ \E a, b \in 1..(next_conn - 1) :
          /\ Cardinality(IdleIn(a)) = 1
          /\ Cardinality(OwnedBy(b)) = 1

\* C2: whenever begin_txn on a thread takes a connection out of that thread's
\* slot, that thread is the one whose begin_txn opened the connection.
C2_ThreadAffine ==
    [][\A key \in Keys : \A t \in DOMAIN Pool(key) :
          (Pool(key)[t] # <<>> /\ INSTANCES'[key].sqlite[t] = <<>>)
              => opener[Pool(key)[t][1].id] = t]_vars

\* an Open step returns: ret' holds its arguments and its result
OpenReturns == ret'.op = "open"
OpenKey == instance_id(ret'.name)
Registered == OpenKey \in DOMAIN INSTANCES
SameFingerprint == schema_hash(INSTANCES[OpenKey]) = hash_schema(ret'.schema)
Untouched ==
    /\ INSTANCES' = INSTANCES
    /\ txns' = txns
    /\ next_conn' = next_conn
    /\ next_inst' = next_inst
    /\ dropped' = dropped

Finished(t) == call[t].op \in {"done", "panicked"}
Raced(t, u) ==
    /\ t # u
    /\ u \in call[t].with /\ t \in call[u].with
    /\ call[t].fresh /\ call[u].fresh
    /\ call[t].schema = call[u].schema
    /\ Finished(t) /\ Finished(u)

\* C5 as stated: of the threads that concurrently open an unopened name with
\* the same schema, one runs construction and migration, all return
\* successfully, and all get the same instance. Read for calls that name a
\* directory, bring a schema that verifies, and return rather than panic.
C5_RaceSafe ==
    \A t, u \in Threads :
        (/\ Raced(t, u)
         /\ call[t].op = "done" /\ call[u].op = "done"
         /\ call[t].dir # <<>> /\ call[u].dir # <<>>
         /\ verify_schema(call[t].schema))
            => /\ call[t].result = "Ok" /\ call[u].result = "Ok"
               /\ call[t].arc = call[u].arc
               /\ call[t].constructed # call[u].constructed
               /\ call[t].migrated # call[u].migrated

\* C5: the calls hold the registry's write lock one at a time; of the calls
\* that concurrently open an unopened name with the same schema at most one
\* constructs successfully, all that return successfully return the same
\* instance, and beside a call that constructed successfully every other one
\* returns that instance without constructing, migrating or opening a
\* connection, unless it ran a construction of its own that failed, or
\* panicked on the lock a panicking construction had poisoned.
C5_OneConstruction ==
    /\ Cardinality(Holder) <= 1
    /\ \A t, u \in Threads :
          Raced(t, u) =>
             /\ ~(call[t].result = "Ok" /\ call[t].constructed
                     /\ call[u].result = "Ok" /\ call[u].constructed)
             /\ (call[t].result = "Ok" /\ call[u].result = "Ok")
                    => call[t].arc = call[u].arc
             /\ (call[t].result = "Ok" /\ call[t].constructed)
                    => \/ /\ call[u].result = "Ok" /\ call[u].arc = call[t].arc
                          /\ ~call[u].constructed /\ ~call[u].migrated
                          /\ call[u].opened = 0
                       \/ call[u].constructed /\ call[u].result # "Ok"
                       \/ /\ call[u].op = "panicked" /\ ~call[u].constructed
                          /\ lock = "poisoned"

\* two threads raced for an unopened name: one constructed the instance
\* while the other was inside its call, and the other then got that instance
\* without constructing
C5_Witness ==
    \E t, u \in Threads :
        /\ Raced(t, u)
        /\ call[t].with = {u} /\ call[u].with = {t}
        /\ call[t].result = "Ok" /\ call[t].constructed /\ call[t].migrated
        /\ call[u].result = "Ok" /\ ~call[u].constructed
        /\ call[u].arc = call[t].arc

\* C6 as stated: open without a directory fails with IllegalArg in every
\* registry state.
C6_AlwaysIllegalArg ==
    (ret.op = "open" /\ ret.dir = <<>>) => ret.result = "IllegalArg"

\* C6 amended: open without a directory fails with IllegalArg, whatever the
\* schema, when no instance is registered under the name; when one is
\* registered the directory is not looked at. On the poisoned lock the call
\* panics, whatever is registered.
C6_IllegalArgUnlessRegistered ==
    [][(OpenReturns /\ ret'.dir = <<>>)
          => IF lock = "poisoned"
             THEN ret'.result = "Panic" /\ Untouched
             ELSE IF ~Registered
             THEN /\ ret'.result = "IllegalArg"
                  /\ ret'.opened = 0 /\ ~ret'.migrated
                  /\ Untouched
             ELSE ret'.result = IF SameFingerprint THEN "Ok" ELSE "SchemaMismatch"]_vars

\* open without a directory and with a malformed schema has failed with IllegalArg
C6_Witness ==
    /\ ret.op = "open" /\ ret.dir = <<>> /\ ret.result = "IllegalArg"
    /\ ~verify_schema(ret.schema)

OpenErrors == {"IllegalArg", "SchemaError", "IoError", "MigrationError"}

\* C7: an open whose construction fails returns an error and leaves the
\* registry as it was, the name still unregistered.
C7_FailurePublishesNothing ==
    [][(OpenReturns /\ ret'.constructed /\ ret'.result # "Ok")
          => /\ ret'.result \in OpenErrors
             /\ INSTANCES' = INSTANCES
             /\ OpenKey \notin DOMAIN INSTANCES']_vars

\* the slots of `instances` in which the connection `id` rests idle
IdleSlots(instances, id) ==
    {kt \in UNION {{<<key, t>> : t \in DOMAIN instances[key].sqlite} :
                      key \in DOMAIN instances} :
        /\ instances[kt[1]].sqlite[kt[2]] # <<>>
        /\ instances[kt[1]].sqlite[kt[2]][1].id = id}

\* C8 as stated: after a commit the engine accepted, the connection is the
\* idle connection in the slot of the thread that called commit.
C8_CommitReturnsToCaller ==
    [][\A t \in Threads, txn \in txns :
          (ret'.op = "commit" /\ Commit(t, txn, TRUE))
              => ThreadLocal_get(INSTANCES'[txn.inst].sqlite, t) = << <<txn.sqlite>> >>]_vars

\* C8 amended: after a commit the engine accepted, the connection is the idle
\* connection in the calling thread's slot when that thread has a slot on the
\* instance; when it has none, the connection is dropped and no slot changes.
C8_CommitReturnsToSlot ==
    [][\A t \in Threads, txn \in txns :
          (ret'.op = "commit" /\ Commit(t, txn, TRUE))
              => /\ ret'.result = "Ok"
                 /\ IF t \in DOMAIN Pool(txn.inst)
                    THEN /\ INSTANCES'[txn.inst].sqlite[t] = <<txn.sqlite>>
                         /\ IdleSlots(INSTANCES', txn.sqlite.id) = {<<txn.inst, t>>}
                    ELSE /\ INSTANCES' = INSTANCES
                         /\ txn.sqlite.id \in dropped']_vars

\* the one connection begin_txn opened rests idle in a slot after its commit
C8_Witness ==
    /\ ret.op = "commit" /\ ret.result = "Ok"
    /\ next_conn = 2 /\ dropped = {} /\ txns = {}
    /\ Cardinality(IdleIn(1)) = 1

\* C9: a commit the engine rejects returns the error, drops the connection
\* and leaves every slot as it was.
C9_CommitFailureForfeits ==
    [][\A t \in Threads, txn \in txns :
          (ret'.op = "commit" /\ Commit(t, txn, FALSE))
              => /\ ret'.result = "Error"
                 /\ INSTANCES' = INSTANCES
                 /\ IdleSlots(INSTANCES', txn.sqlite.id) = {}
                 /\ txn.sqlite.id \in dropped'
                 /\ txn \notin txns']_vars

\* a commit has failed while a slot holds an idle connection
C9_Witness ==
    /\ ret.op = "commit" /\ ret.result = "Error"
    /\ \E key \in Keys : \E t \in DOMAIN Pool(key) : Pool(key)[t] # <<>>

\* C10 as stated: abort returns no failure; after a rollback that succeeded
\* the connection is back in the pool, after one that failed it is dropped
\* and the slots are as they were.
C10_AbortReleases ==
    [][\A t \in Threads, txn \in txns :
          /\ (ret'.op = "abort" /\ Abort(t, txn, TRUE))
                => /\ ret'.result = "Unit"
                   /\ IdleSlots(INSTANCES', txn.sqlite.id) # {}
          /\ (ret'.op = "abort" /\ Abort(t, txn, FALSE))
                => /\ ret'.result = "Unit"
                   /\ INSTANCES' = INSTANCES
                   /\ txn.sqlite.id \in dropped']_vars

\* C10 amended: abort returns no failure; after a rollback that succeeded the
\* connection is idle in the calling thread's slot when that thread has a
\* slot on the instance and is dropped when it has none; after one that
\* failed it is dropped and the slots are as they were.
C10_AbortNeverFails ==
    [][\A t \in Threads, txn \in txns :
          /\ (ret'.op = "abort" /\ Abort(t, txn, TRUE))
                => /\ ret'.result = "Unit"
                   /\ IF t \in DOMAIN Pool(txn.inst)
                      THEN IdleSlots(INSTANCES', txn.sqlite.id) = {<<txn.inst, t>>}
                      ELSE /\ INSTANCES' = INSTANCES
                           /\ txn.sqlite.id \in dropped'
          /\ (ret'.op = "abort" /\ Abort(t, txn, FALSE))
                => /\ ret'.result = "Unit"
                   /\ INSTANCES' = INSTANCES
                   /\ IdleSlots(INSTANCES', txn.sqlite.id) = {}
                   /\ txn.sqlite.id \in dropped']_vars

\* the one connection begin_txn opened rests idle in a slot after its abort
C10_Witness ==
    /\ ret.op = "abort" /\ ret.result = "Unit"
    /\ next_conn = 2 /\ dropped = {} /\ txns = {}
    /\ Cardinality(IdleIn(1)) = 1

\* the connection begin_txn on thread t borrows on the instance under key: the
\* idle one of the thread's slot, or else the one it opens
Borrowed(t, key) ==
    IF t \in DOMAIN Pool(key) /\ Pool(key)[t] # <<>>
    THEN Pool(key)[t][1].id
    ELSE next_conn

\* C11 as stated: after a begin_txn that fails with a connection borrowed, and
\* after every commit_txn and abort_txn, accepted by the engine or not, the
\* connection is idle in the slot of the thread whose begin_txn borrowed it.
C11_ReturnedOnEveryPath ==
    [][\A t \in Threads :
          /\ \A key \in Keys, write \in BOOLEAN :
                (ret'.op = "begin" /\ ret'.result = "Error"
                    /\ Begin(t, key, write, "txn_error"))
                   => IdleSlots(INSTANCES', Borrowed(t, key)) = {<<key, t>>}
          /\ \A txn \in txns \ txns', ok \in BOOLEAN :
                (\/ ret'.op = "commit" /\ Commit(t, txn, ok)
                 \/ ret'.op = "abort" /\ Abort(t, txn, ok))
                   => IdleSlots(INSTANCES', txn.sqlite.id)
                         = {<<txn.inst, borrower[txn.sqlite.id]>>}]_vars

\* C11 amended: a borrowed connection comes back to a slot only through a
\* commit or a rollback the engine accepted, called on a thread that has a slot
\* on the instance, and then it is idle in that calling thread's slot; after a
\* begin_txn whose engine transaction fails to start, after a commit or a
\* rollback the engine rejected, and when the calling thread has no slot, the
\* connection is dropped and rests in no slot.
C11_ReturnedOrDropped ==
    [][\A t \in Threads :
          /\ \A key \in Keys, write \in BOOLEAN :
                (ret'.op = "begin" /\ ret'.result = "Error"
                    /\ Begin(t, key, write, "txn_error"))
                   => /\ IdleSlots(INSTANCES', Borrowed(t, key)) = {}
                      /\ Borrowed(t, key) \in dropped'
                      /\ OwnedBy(Borrowed(t, key)) = {}
          /\ \A txn \in txns \ txns', ok \in BOOLEAN :
                (\/ ret'.op = "commit" /\ Commit(t, txn, ok)
                 \/ ret'.op = "abort" /\ Abort(t, txn, ok))
                   => IF ok /\ t \in DOMAIN Pool(txn.inst)
                      THEN /\ IdleSlots(INSTANCES', txn.sqlite.id) = {<<txn.inst, t>>}
                           /\ txn.sqlite.id \notin dropped'
                      ELSE /\ IdleSlots(INSTANCES', txn.sqlite.id) = {}
                           /\ txn.sqlite.id \in dropped']_vars

\* a begin_txn has failed to start its engine transaction, and the one
\* connection the pool ever held is dropped
C11_Witness ==
    /\ ret.op = "begin" /\ ret.result = "Error"
    /\ next_conn = 2 /\ dropped = {1} /\ txns = {}

\* what a dispatch call must leave alone: the instances with their pools, the
\* transactions with their writes, the stored documents and the connections
Undisturbed ==
    /\ INSTANCES' = INSTANCES
    /\ txns' = txns
    /\ pending' = pending
    /\ db' = db
    /\ next_conn' = next_conn
    /\ dropped' = dropped

\* C12: query and insert with a collection id the instance does not know fail
\* with IllegalArg, construct no builder (the only place the engine is
\* reached from), and leave the instance, its pool and the transaction as they
\* were.
C12_UnknownCollection ==
    [][ret'.op \in {"query", "insert"} =>
          \A key \in Keys, col_id \in CollectionIdOpts :
             col_id \notin DOMAIN INSTANCES[key].collections
                => /\ (ret'.op = "query" /\ Query(key, col_id))
                         => /\ ret'.result = "IllegalArg"
                            /\ ret'.value = <<>>
                            /\ Undisturbed
                   /\ \A txn \in txns, count \in {0, MaxDocs} :
                         (ret'.op = "insert" /\ txn.inst = key
                             /\ InsertCall(txn, col_id, count))
                            => /\ ret'.result = "IllegalArg"
                               /\ ret'.value = <<>>
                               /\ Undisturbed]_vars

\* an insert with an unknown collection id has failed on an instance that
\* holds an idle connection and has a transaction in flight
C12_Witness ==
    /\ ret.op = "insert" /\ ret.result = "IllegalArg"
    /\ \E key \in Keys : \E t \in DOMAIN Pool(key) : Pool(key)[t] # <<>>
    /\ txns # {}

\* the documents written so far whose commit_txn returned Ok, as they were
\* written and in the order of their insertion
CommittedDocs ==
    SelectSeq([n \in 1..(next_doc - 1) |-> Doc(n, ColTest.name)],
              LAMBDA d : d.id \in committed)

\* C13: a transaction that reads after a write transaction was committed
\* observes every document of that transaction, with the field values written
\* and in insertion order; in particular a read transaction begun afterwards
\* on the same thread, which reuses the connection the commit returned.
C13_CommittedObserved ==
    [][ret'.op = "read" =>
          \A txn \in txns :
             Read(txn, get_id(ColTest))
                => SelectSeq(ret'.docs, LAMBDA d : d.id \in committed) = CommittedDocs]_vars

\* one connection was ever opened: the thread that committed two documents
\* on it has begun a read transaction on it and read both
C13_Witness ==
    /\ ret.op = "read" /\ Len(ret.docs) = 2
    /\ Cardinality(committed) = 2
    /\ next_conn = 2 /\ dropped = {}
    /\ \E txn \in txns : ~txn.write /\ txn.sqlite.id = 1

\* C14: no transaction that reads after a write transaction was aborted
\* observes a document that transaction inserted, and no such document is
\* ever stored.
C14_AbortedUnobserved ==
    [][/\ ret'.op = "read" =>
             \A txn \in txns :
                Read(txn, get_id(ColTest)) => DocIds(ret'.docs) \cap aborted = {}
       /\ \A path \in DOMAIN db' : DocIds(db'[path]) \cap aborted' = {}]_vars

\* on the one connection ever opened a document was inserted and aborted,
\* another was committed, and a read transaction begun afterwards has read
\* the committed one only
C14_Witness ==
    /\ ret.op = "read" /\ Len(ret.docs) = 1
    /\ aborted # {} /\ committed # {}
    /\ next_conn = 2 /\ dropped = {}
    /\ \E txn \in txns : ~txn.write /\ txn.sqlite.id = 1

\* C15: collection_id(index) returns the id of the index-th collection the
\* instance's schema declares, counted from zero, and nothing for an index at
\* or beyond the number of declared collections.
C15_CollectionIdAt ==
    [][ret'.op = "collection_id" =>
          \A key \in Keys, index \in 0..MaxIndex :
             CollectionId(key, index) =>
                \A schema \in Schemas :
                   hash_schema(schema) = INSTANCES[key].schema_hash
                      => ret'.value = IF index < Len(schema.collections)
                                      THEN <<get_id(schema.collections[index + 1])>>
                                      ELSE <<>>]_vars

\* the id of the second collection was returned by an instance of two
\* collections
C15_Witness ==
    /\ ret.op = "collection_id" /\ ret.value = <<get_id(ColUser)>>
    /\ \E key \in Keys : INSTANCES[key].schema_hash = hash_schema(SchemaTestUser)

\* C16: begin_txn on a thread whose slot holds an idle connection empties
\* the slot and opens no connection, whatever the engine does; the
\* transaction it returns owns the connection the slot held.
C16_ReusesIdleConnection ==
    [][ret'.op = "begin" =>
          \A t \in Threads, key \in Keys, write \in BOOLEAN, env \in BeginEnv :
             (/\ t \in DOMAIN Pool(key) /\ Pool(key)[t] # <<>>
              /\ Begin(t, key, write, env))
                => /\ INSTANCES'[key].sqlite[t] = <<>>
                   /\ next_conn' = next_conn
                   /\ ret'.result \in {"Ok", "Error"}
                   /\ ret'.result = "Ok"
                         => \E txn \in txns' \ txns :
                               /\ txns' = txns \cup {txn}
                               /\ txn.sqlite = Pool(key)[t][1]]_vars

\* the first connection was opened before the second and is now owned by the
\* transaction the last call began: that call took it from its slot
C16_Witness ==
    /\ ret.op = "begin" /\ ret.result = "Ok"
    /\ next_conn = 3 /\ dropped = {} /\ IdleIn(2) # {}
    /\ \E txn \in txns : txns = {txn} /\ txn.sqlite.id = 1

\* the connections that exist: idle in a slot or owned by a transaction
Live == {id \in 1..(next_conn - 1) : IdleIn(id) # {} \/ OwnedBy(id) # {}}

\* C17: begin_txn on a thread whose slot exists and is empty opens a new
\* connection: unless the engine itself fails to open it or to start the
\* transaction, the call returns a transaction on a connection no other
\* transaction owns and no slot holds, and the transactions already in flight
\* keep theirs.
C17_OpensWhenSlotEmpty ==
    [][ret'.op = "begin" =>
          \A t \in Threads, key \in Keys, write \in BOOLEAN, env \in BeginEnv :
             (/\ t \in DOMAIN Pool(key) /\ Pool(key)[t] = <<>>
              /\ Begin(t, key, write, env))
                => /\ INSTANCES'[key].sqlite[t] = <<>>
                   /\ txns \subseteq txns'
                   /\ ret'.result = (CASE env = "ok" -> "Ok"
                                        [] env = "io_error" -> "IoError"
                                        [] env = "txn_error" -> "Error")
                   /\ next_conn' = IF env = "io_error" THEN next_conn ELSE next_conn + 1
                   /\ env = "ok"
                         => \E txn \in txns' \ txns :
                               /\ txns' = txns \cup {txn}
                               /\ txn.sqlite.id = next_conn
                               /\ txn.sqlite.id \notin Live \cup dropped
                               /\ \A other \in txns : other.sqlite.id # txn.sqlite.id]_vars

\* the only slot of the instance is empty and two transactions, both begun
\* on its thread, are in flight on the two connections opened so far
C17_Witness ==
    /\ ret.op = "begin" /\ ret.result = "Ok"
    /\ next_conn = 3 /\ dropped = {}
    /\ \E key \in Keys : \E t \in Threads :
          /\ DOMAIN Pool(key) = {t} /\ Pool(key)[t] = <<>>
          /\ DOMAIN borrower = {1, 2} /\ borrower[1] = t /\ borrower[2] = t
    /\ {txn.sqlite.id : txn \in txns} = {1, 2}

\* C18: a slot never holds more than one connection, and a commit or abort
\* that succeeds on a thread whose slot holds an idle connection puts the
\* released connection in its place: the one held before is dropped and rests
\* in no slot.
C18_ReleaseOverwrites ==
    /\ [](\A key \in Keys : \A t \in DOMAIN Pool(key) : Len(Pool(key)[t]) <= 1)
    /\ [][ret'.op \in {"commit", "abort"} =>
             \A t \in Threads, txn \in txns \ txns' :
                (/\ t \in DOMAIN Pool(txn.inst) /\ Pool(txn.inst)[t] # <<>>
                 /\ \/ ret'.op = "commit" /\ Commit(t, txn, TRUE)
                    \/ ret'.op = "abort" /\ Abort(t, txn, TRUE))
                   => LET old == Pool(txn.inst)[t][1].id
                      IN /\ INSTANCES'[txn.inst].sqlite[t] = <<txn.sqlite>>
                         /\ old # txn.sqlite.id
                         /\ old \in dropped'
                         /\ IdleSlots(INSTANCES', old) = {}]_vars

\* the thread of the only slot had both connections outstanding and has
\* released them one after the other: the last release dropped the first
\* connection and left the second in the slot
C18_Witness ==
    /\ ret.op \in {"commit", "abort"} /\ ret.drops = {1}
    /\ next_conn = 3 /\ dropped = {1} /\ txns = {}
    /\ \E key \in Keys : \E t \in Threads :
          DOMAIN Pool(key) = {t} /\ Pool(key)[t] = <<SQLite3(2, INSTANCES[key].path)>>

\* C19: no call changes the collections, the collection ids, the schema
\* fingerprint or the path of an instance that is registered, and none
\* unregisters it; a call changes the pool at most.
C19_MetadataFrozen ==
    [][\A key \in Keys :
          /\ key \in DOMAIN INSTANCES'
          /\ INSTANCES'[key].collections = INSTANCES[key].collections
          /\ INSTANCES'[key].collection_ids = INSTANCES[key].collection_ids
          /\ INSTANCES'[key].schema_hash = INSTANCES[key].schema_hash
          /\ INSTANCES'[key].path = INSTANCES[key].path]_vars

\* an instance whose pool has changed (a connection rests idle in it, another
\* is out with a transaction that has just been handed an insert) still has
\* the collections of the schema whose fingerprint it carries
C19_Witness ==
    /\ ret.op = "insert" /\ ret.result = "Ok"
    /\ \E key \in Keys :
          /\ \E t \in DOMAIN Pool(key) : Pool(key)[t] # <<>>
          /\ \E txn \in txns : txn.inst = key
          /\ \E schema \in Schemas :
                /\ INSTANCES[key].schema_hash = hash_schema(schema)
                /\ <<INSTANCES[key].collections, INSTANCES[key].collection_ids>>
                      = get_collections(schema)

\* the connections thread t has opened
OpenedBy(t) == {id \in DOMAIN opener : opener[id] = t}

\* C20: when every thread runs its transactions one after another, each
\* committed or aborted by the thread that began it, and the engine never
\* fails, no connection of the pool is dropped and a thread opens one
\* connection in all: it never opens a second one, and a thread with a
\* transaction in flight has opened exactly the connection that transaction
\* owns, on its first begin_txn.
C20_OneConnectionPerThread ==
    /\ dropped = {}
    /\ \A t \in Threads : Cardinality(OpenedBy(t)) <= 1
    /\ \A txn \in txns : OpenedBy(borrower[txn.sqlite.id]) = {txn.sqlite.id}

====
